---- MODULE Spec2Model ----
(***************************************************************************)
(* Ranked-choice voting simulator (src/main.py): the two parsers, the      *)
(* three tallying engines (IRV, Borda, Condorcet) and the run_simulation   *)
(* handler that drives them.                                               *)
(*                                                                         *)
(* A text (Python str) is the sequence of its Unicode code points, a       *)
(* candidate name is a text, a ballot is the pair <<count, ranking>>, a    *)
(* Counter is the sequence of its <<key, value>> items in insertion order. *)
(* A Python int has any size: it is the sequence of its limbs. The one     *)
(* float of the program, total / 2 in the majority check of irv_winner, is *)
(* computed with its rounding to 53 bits and its OverflowError; an         *)
(* exception nothing catches ends the request and is kept in traceback.    *)
(*                                                                         *)
(* Spec is the window from its construction on: the default form, the      *)
(* user's changes of the form, the two buttons. FilledSpec starts from a   *)
(* form the user has filled in (generated elections and hand-typed texts)  *)
(* and follows the two buttons; the parsers and engines are exercised      *)
(* there.                                                                  *)
(***************************************************************************)
EXTENDS Integers, Sequences, FiniteSets, TLC

\* ------------------------------------------------------------------ bounds
\* Largest number of ballot lines of the generated elections.
MaxLines == 3

\* --------------------------------------------------------------- characters
\* the characters the code names, as code points
Comma == 44
Colon == 58
Greater == 62
Plus == 43
Minus == 45
Underscore == 95
LineFeed == 10
CarriageReturn == 13

\* the characters str.strip() removes: those for which str.isspace() holds
Whitespace ==
    {9, 10, 11, 12, 13, 28, 29, 30, 31, 32, 133, 160, 5760}
        \cup (8192..8202) \cup {8232, 8233, 8239, 8287, 12288}

\* the characters str.splitlines() breaks a line at
LineBreaks == {10, 11, 12, 13, 28, 29, 30, 133, 8232, 8233}

\* the zero of every run of ten decimal digits int() reads (Unicode category
\* Nd): ASCII, Arabic-Indic, Devanagari, fullwidth, ...
DigitZeros ==
    {48, 1632, 1776, 1984, 2406, 2534, 2662, 2790, 2918, 3046, 3174, 3302, 3430,
     3558, 3664, 3792, 3872, 4160, 4240, 6112, 6160, 6470, 6608, 6784, 6800, 6992,
     7088, 7232, 7248, 42528, 43216, 43264, 43472, 43504, 43600, 44016, 65296,
     66720, 68912, 69734, 69872, 69942, 70096, 70384, 70736, 70864, 71248, 71360,
     71472, 71904, 72016, 72784, 73040, 73120, 92768, 92864, 93008, 120782,
     120792, 120802, 120812, 120822, 123200, 123632, 125264, 130032}

Digits == UNION {z..(z + 9) : z \in DigitZeros}

\* the longest run of digits int() converts (sys.get_int_max_str_digits())
MaxStrDigits == 4300

\* ------------------------------------------------------------- str methods
RECURSIVE lstrip(_)
lstrip(s) ==
    IF s # <<>> /\ Head(s) \in Whitespace THEN lstrip(Tail(s)) ELSE s

RECURSIVE rstrip(_)
rstrip(s) ==
    IF s # <<>> /\ s[Len(s)] \in Whitespace
    THEN rstrip(SubSeq(s, 1, Len(s) - 1))
    ELSE s

\* str.strip()
strip(s) == rstrip(lstrip(s))

\* c in s
Contains(s, c) == \E i \in 1..Len(s) : s[i] = c

\* s.find(c), 1-based; 0 when absent
Find(s, c) ==
    IF Contains(s, c)
    THEN CHOOSE i \in 1..Len(s) : s[i] = c /\ \A j \in 1..(i - 1) : s[j] # c
    ELSE 0

\* str.split(sep): one more piece than there are separators
RECURSIVE split(_, _)
split(s, sep) ==
    IF ~Contains(s, sep)
    THEN <<s>>
    ELSE <<SubSeq(s, 1, Find(s, sep) - 1)>>
             \o split(SubSeq(s, Find(s, sep) + 1, Len(s)), sep)

\* str.split(sep, 1): the text before the first sep and the text after it
split1(s, sep) ==
    <<SubSeq(s, 1, Find(s, sep) - 1), SubSeq(s, Find(s, sep) + 1, Len(s))>>

\* position of the first line break of s, 0 when it has none
FirstBreak(s) ==
    IF \E i \in 1..Len(s) : s[i] \in LineBreaks
    THEN CHOOSE i \in 1..Len(s) :
             s[i] \in LineBreaks /\ \A j \in 1..(i - 1) : s[j] \notin LineBreaks
    ELSE 0

\* str.splitlines(): the pieces between line breaks, a carriage return with
\* the line feed after it being one break; no empty piece after a final break
RECURSIVE splitlines(_)
splitlines(s) ==
    IF s = <<>> THEN <<>>
    ELSE IF FirstBreak(s) = 0 THEN <<s>>
    ELSE LET brk == FirstBreak(s)
             next == IF s[brk] = CarriageReturn /\ brk < Len(s) /\ s[brk + 1] = LineFeed
                     THEN brk + 2
                     ELSE brk + 1
         IN  <<SubSeq(s, 1, brk - 1)>> \o splitlines(SubSeq(s, next, Len(s)))

\* str.replace(old, new) for one-character old and new
replace(s, old, new) == [i \in 1..Len(s) |-> IF s[i] = old THEN new ELSE s[i]]

\* the elements of a list, as a set
ToSet(l) == {l[i] : i \in 1..Len(l)}

\* [x for x in l if x not in drop]
RECURSIVE Without(_, _)
Without(l, drop) ==
    IF l = <<>> THEN <<>>
    ELSE IF Head(l) \in drop THEN Without(Tail(l), drop)
    ELSE <<Head(l)>> \o Without(Tail(l), drop)

\* [c.strip() for c in pieces if c.strip()]
RECURSIVE Tokens(_)
Tokens(pieces) ==
    IF pieces = <<>> THEN <<>>
    ELSE IF strip(Head(pieces)) = <<>> THEN Tokens(Tail(pieces))
    ELSE <<strip(Head(pieces))>> \o Tokens(Tail(pieces))

\* the text of a number without its sign
Unsigned(t) == IF t # <<>> /\ t[1] \in {Plus, Minus} THEN Tail(t) ELSE t

\* int(text) succeeds: blanks around, an optional sign, then decimal digits
\* with single underscores between them, no more than MaxStrDigits digits
IsInt(s) ==
    LET body == Unsigned(strip(s))
    IN  /\ body # <<>>
        /\ \A i \in 1..Len(body) :
               \/ body[i] \in Digits
               \/ /\ body[i] = Underscore
                  /\ 1 < i /\ i < Len(body)
                  /\ body[i - 1] \in Digits /\ body[i + 1] \in Digits
        /\ Len(SelectSeq(body, LAMBDA c : c # Underscore)) <= MaxStrDigits

DigitValue(c) == c - (CHOOSE z \in DigitZeros : c \in z..(z + 9))

\* ----------------------------------------------------------------------- int
\* A Python int of any size, never negative once a count has been accepted:
\* the sequence of its limbs in base 2^LimbBits, least significant first and
\* no zero limb at the top. 0 is <<>>, 10 is <<10>>, 2^15 is <<0, 1>>.
LimbBits == 15

Base == 2^LimbBits

Zero == <<>>

One == <<1>>

Max(a, b) == IF a >= b THEN a ELSE b

\* the limbs of a small number
RECURSIVE Limbs(_)
Limbs(n) == IF n = 0 THEN <<>> ELSE <<n % Base>> \o Limbs(n \div Base)

\* x without zero limbs at the top
Norm(x) ==
    LET nonzero == {i \in 1..Len(x) : x[i] # 0}
    IN  IF nonzero = {} THEN <<>>
        ELSE SubSeq(x, 1, CHOOSE i \in nonzero : \A j \in nonzero : j <= i)

\* the limbs and the carry out of the column sums s (each below 2^30), with
\* the carry c coming in
RECURSIVE Propagate(_, _)
Propagate(s, c) ==
    IF s = <<>> THEN [limbs |-> <<>>, carry |-> c]
    ELSE IF Len(s) = 1
    THEN [limbs |-> <<(s[1] + c) % Base>>, carry |-> (s[1] + c) \div Base]
    ELSE LET h == Len(s) \div 2
             lo == Propagate(SubSeq(s, 1, h), c)
             hi == Propagate(SubSeq(s, h + 1, Len(s)), lo.carry)
         IN  [limbs |-> lo.limbs \o hi.limbs, carry |-> hi.carry]

Carried(s) == LET p == Propagate(s, 0) IN p.limbs \o Limbs(p.carry)

\* x + y
Sum(x, y) ==
    IF x = Zero THEN y
    ELSE IF y = Zero THEN x
    ELSE Carried([i \in 1..Max(Len(x), Len(y)) |->
                     (IF i <= Len(x) THEN x[i] ELSE 0) + (IF i <= Len(y) THEN y[i] ELSE 0)])

\* x * k for a small number 0 <= k < Base
Times(x, k) == IF x = Zero \/ k = 0 THEN Zero ELSE Carried([i \in 1..Len(x) |-> x[i] * k])

RECURSIVE Mul(_, _)
Mul(x, y) ==
    IF x = Zero \/ y = Zero THEN Zero
    ELSE IF Len(y) = 1 THEN Times(x, y[1])
    ELSE LET h == Len(y) \div 2
             low == Mul(x, SubSeq(y, 1, h))
             high == [i \in 1..h |-> 0] \o Mul(x, SubSeq(y, h + 1, Len(y)))
         IN  IF low = Zero THEN high ELSE Sum(low, high)

\* x * y
Product(x, y) == Norm(Mul(x, y))

\* x < y
Less(x, y) ==
    \/ Len(x) < Len(y)
    \/ /\ Len(x) = Len(y)
       /\ \E i \in 1..Len(x) : x[i] < y[i] /\ \A j \in (i + 1)..Len(x) : x[j] = y[j]

\* x <= y
LessEq(x, y) == ~Less(y, x)

\* 10 ** n
RECURSIVE Pow10(_)
Pow10(n) ==
    IF n = 0 THEN One
    ELSE LET root == Pow10(n \div 2)
             square == IF root = One THEN One ELSE Product(root, root)
         IN  IF n % 2 = 0 THEN square ELSE Times(square, 10)

\* the number of binary digits of a limb, of an int
RECURSIVE Bits(_)
Bits(n) == IF n = 0 THEN 0 ELSE 1 + Bits(n \div 2)

BitLength(x) == IF x = <<>> THEN 0 ELSE LimbBits * (Len(x) - 1) + Bits(x[Len(x)])

\* x >> s
ShiftRight(x, s) ==
    LET t == s % LimbBits
        y == SubSeq(x, (s \div LimbBits) + 1, Len(x))
    IN  Norm([i \in 1..Len(y) |->
                 (y[i] \div 2^t)
                     + (IF i < Len(y) THEN (y[i + 1] % 2^t) * 2^(LimbBits - t) ELSE 0)])

\* x << s
ShiftLeft(x, s) ==
    IF x = <<>> THEN <<>>
    ELSE [i \in 1..(s \div LimbBits) |-> 0] \o Times(x, 2^(s % LimbBits))

\* x % 2**s
LowBits(x, s) ==
    LET k == s \div LimbBits
    IN  Norm([i \in 1..(IF Len(x) <= k THEN Len(x) ELSE k + 1) |->
                 IF i <= k THEN x[i] ELSE x[i] % 2^(s % LimbBits)])

\* the value of a run of decimal digits
RECURSIVE Decimal(_)
Decimal(digits) ==
    IF digits = <<>> THEN Zero
    ELSE IF Len(digits) = 1 THEN Limbs(DigitValue(digits[1]))
    ELSE LET h == Len(digits) \div 2
             high == Decimal(SubSeq(digits, 1, Len(digits) - h))
             low == Decimal(SubSeq(digits, Len(digits) - h + 1, Len(digits)))
         IN  IF high = Zero THEN low ELSE Sum(Product(high, Pow10(h)), low)

\* int(text), where IsInt(text): its sign and its magnitude
int(s) ==
    LET magnitude == Decimal(SelectSeq(Unsigned(strip(s)), LAMBDA c : c # Underscore))
    IN  [negative |-> strip(s)[1] = Minus /\ magnitude # Zero, magnitude |-> magnitude]

\* n <= 0 for what int() returned
NotPositive(n) == n.negative \/ n.magnitude = Zero

\* str(n) succeeds: n has no more than MaxStrDigits decimal digits
Printable(n) == BitLength(n) <= 3 * MaxStrDigits \/ Less(n, Pow10(MaxStrDigits))

\* --------------------------------------------------------------------- float
\* the significant bits of a float, and the power of two no float reaches
MantissaBits == 53

MaxExponent == 1024

\* float(x) for an int x, as the int it equals: x rounded to MantissaBits
\* significant bits, a tie going to the even neighbour
RoundToFloat(x) ==
    IF BitLength(x) <= MantissaBits THEN x
    ELSE LET s == BitLength(x) - MantissaBits
             kept == ShiftRight(x, s)
             dropped == LowBits(x, s)
             half == ShiftLeft(One, s - 1)
             up == Less(half, dropped) \/ (dropped = half /\ kept[1] % 2 = 1)
         IN  ShiftLeft(IF up THEN Sum(kept, One) ELSE kept, s)

\* total / 2 raises OverflowError: the correctly rounded quotient is 2**1024
\* or more
HalfOverflows(total) == BitLength(RoundToFloat(total)) > MaxExponent + 1

\* votes > total / 2, where the quotient is a float: float(total) / 2 exactly
ExceedsHalf(votes, total) == Less(RoundToFloat(total), Sum(votes, votes))

\* ------------------------------------------------------------------ parsers
None == <<>>

\* raise ValueError(message): the message template, the line number and the
\* names it is formatted with
ValueError(message, idx, names) ==
    [ok |-> FALSE, value |-> <<>>,
     error |-> [message |-> message, line |-> idx, names |-> names]]

Return(value) ==
    [ok |-> TRUE, value |-> value,
     error |-> [message |-> "", line |-> 0, names |-> <<>>]]

parse_candidates(raw) ==
    LET cands == Tokens(split(raw, Comma))
    IN  IF Cardinality(ToSet(cands)) # Len(cands)
        THEN ValueError("Candidate names must be unique.", 0, <<>>)
        ELSE IF cands = <<>>
        THEN ValueError("Please enter at least one candidate.", 0, <<>>)
        ELSE Return(cands)

\* the body of the for loop of parse_ballots for one line: a ballot, a blank
\* line (skip) or an error
ParseLine(line, idx, cands) ==
    IF strip(line) = <<>>
    THEN [ok |-> TRUE, skip |-> TRUE, value |-> <<>>, error |-> Return(<<>>).error]
    ELSE IF ~Contains(line, Colon)
    THEN [skip |-> FALSE] @@
         ValueError("Line {idx} must be in the format 'count: ranking'.", idx, <<>>)
    ELSE
    LET count_text == split1(line, Colon)[1]
        ranking_text == split1(line, Colon)[2]
    IN  IF ~IsInt(count_text)
        THEN [skip |-> FALSE] @@ ValueError("Line {idx} has an invalid count.", idx, <<>>)
        ELSE IF NotPositive(int(count_text))
        THEN [skip |-> FALSE] @@ ValueError("Line {idx} count must be positive.", idx, <<>>)
        ELSE
        LET ranking == Tokens(split(replace(ranking_text, Greater, Comma), Comma))
            unknown == Without(ranking, ToSet(cands))
        IN  IF Cardinality(ToSet(ranking)) # Len(ranking)
            THEN [skip |-> FALSE] @@
                 ValueError("Line {idx} ranking has duplicate candidates.", idx, <<>>)
            ELSE IF unknown # <<>>
            THEN [skip |-> FALSE] @@
                 ValueError("Line {idx} contains unknown candidates: {names}.", idx, unknown)
            ELSE [skip |-> FALSE] @@ Return(<<int(count_text).magnitude, ranking>>)

\* the for loop of parse_ballots from line idx on, with the ballots so far
RECURSIVE ParseLines(_, _, _, _)
ParseLines(lines, idx, cands, acc) ==
    IF idx > Len(lines)
    THEN IF acc = <<>>
         THEN ValueError("Please enter at least one valid ballot line.", 0, <<>>)
         ELSE Return(acc)
    ELSE LET r == ParseLine(lines[idx], idx, cands)
         IN  IF ~r.ok THEN [ok |-> FALSE, value |-> <<>>, error |-> r.error]
             ELSE IF r.skip THEN ParseLines(lines, idx + 1, cands, acc)
             ELSE ParseLines(lines, idx + 1, cands, Append(acc, r.value))

parse_ballots(raw, cands) ==
    IF strip(raw) = <<>>
    THEN ValueError("Please enter at least one ballot line.", 0, <<>>)
    ELSE ParseLines(splitlines(raw), 1, cands, <<>>)

\* ------------------------------------------------------------------ Counter
\* counter.get(key, default)
Get(counter, key, default) ==
    IF \E i \in 1..Len(counter) : counter[i][1] = key
    THEN counter[CHOOSE i \in 1..Len(counter) : counter[i][1] = key][2]
    ELSE default

\* counter[key] += n: a new key goes to the end of the insertion order
Add(counter, key, n) ==
    IF \E i \in 1..Len(counter) : counter[i][1] = key
    THEN [i \in 1..Len(counter) |->
            IF counter[i][1] = key THEN <<key, Sum(counter[i][2], n)>> ELSE counter[i]]
    ELSE Append(counter, <<key, n>>)

Keys(counter) == {counter[i][1] : i \in 1..Len(counter)}

\* sum(counter.values())
RECURSIVE SumValues(_)
SumValues(counter) ==
    IF counter = <<>> THEN Zero ELSE Sum(Head(counter)[2], SumValues(Tail(counter)))

\* min(counter.values()), counter not empty
MinValue(counter) ==
    CHOOSE v \in {counter[i][2] : i \in 1..Len(counter)} :
        \A i \in 1..Len(counter) : LessEq(v, counter[i][2])

\* ---------------------------------------------------------------- irv_winner
\* the text "No winner"
NoWinner == <<78, 111, 32, 119, 105, 110, 110, 101, 114>>

\* as CountBallot, without the break: every remaining choice of the ballot is counted
RECURSIVE CountBallot_NoBreak(_, _, _, _)
CountBallot_NoBreak(tally, count, ranking, remaining) ==
    IF ranking = <<>> THEN tally
    ELSE CountBallot_NoBreak(
             IF Head(ranking) \in ToSet(remaining) THEN Add(tally, Head(ranking), count) ELSE tally,
             count, Tail(ranking), remaining)

\* for choice in ranking: if choice in remaining: tally[choice] += count; break
RECURSIVE CountBallot(_, _, _, _)
CountBallot(tally, count, ranking, remaining) ==
    IF ranking = <<>> THEN tally
    ELSE IF Head(ranking) \in ToSet(remaining) THEN Add(tally, Head(ranking), count)
    ELSE CountBallot(tally, count, Tail(ranking), remaining)

\* the tally of one round: the for loop over the ballots
RECURSIVE TallyRound(_, _, _)
TallyRound(tally, blts, remaining) ==
    IF blts = <<>> THEN tally
    ELSE TallyRound(CountBallot(tally, Head(blts)[1], Head(blts)[2], remaining),
                    Tail(blts), remaining)

\* for candidate, votes in tally.items(): if votes > total / 2: return candidate
\* (None when the loop falls through), where total / 2 does not overflow
RECURSIVE Majority(_, _)
Majority(tally, total) ==
    IF tally = <<>> THEN None
    ELSE IF ExceedsHalf(Head(tally)[2], total) THEN Head(tally)[1]
    ELSE Majority(Tail(tally), total)

lowest_votes(tally) == IF tally # <<>> THEN MinValue(tally) ELSE Zero

\* [c for c in remaining if tally.get(c, 0) == lowest_votes]
eliminated(tally, remaining) ==
    SelectSeq(remaining, LAMBDA c : Get(tally, c, Zero) = lowest_votes(tally))

\* as AppendRound, without the copy: every recorded round shares the one
\* remaining list
AppendRound_Aliased(rounds, tally, total, remaining) ==
    Append([i \in 1..Len(rounds) |-> <<rounds[i][1], rounds[i][2], remaining>>],
           <<tally, total, remaining>>)

\* rounds.append((tally, total, list(remaining)))
AppendRound(rounds, tally, total, remaining) ==
    Append(rounds, <<tally, total, remaining>>)

\* remaining[0] if remaining else "No winner"
LastStanding(remaining) == IF remaining # <<>> THEN remaining[1] ELSE NoWinner

\* -------------------------------------------------------------- borda_winner
\* for idx, candidate in enumerate(ranking): scores[candidate] += count * (max_points - idx)
RECURSIVE ScoreBallot(_, _, _, _, _)
ScoreBallot(scores, count, ranking, idx, max_points) ==
    IF ranking = <<>> THEN scores
    ELSE ScoreBallot(Add(scores, Head(ranking), Times(count, max_points - idx)),
                     count, Tail(ranking), idx + 1, max_points)

RECURSIVE ScoreBallots(_, _, _)
ScoreBallots(scores, blts, max_points) ==
    IF blts = <<>> THEN scores
    ELSE ScoreBallots(ScoreBallot(scores, Head(blts)[1], Head(blts)[2], 0, max_points),
                      Tail(blts), max_points)

borda_winner(cands, blts) ==
    ScoreBallots([i \in 1..Len(cands) |-> <<cands[i], Zero>>], blts, Len(cands) - 1)

\* as FirstMax, the last item with the largest value
LastMax(items) ==
    CHOOSE i \in 1..Len(items) :
        /\ \A j \in 1..Len(items) : LessEq(items[j][2], items[i][2])
        /\ \A j \in (i + 1)..Len(items) : Less(items[j][2], items[i][2])

\* the first item with the largest value: max(items, key=itemgetter(1))
FirstMax(items) ==
    CHOOSE i \in 1..Len(items) :
        /\ \A j \in 1..Len(items) : LessEq(items[j][2], items[i][2])
        /\ \A j \in 1..(i - 1) : Less(items[j][2], items[i][2])

\* Counter.most_common(): the items by value, largest first, equal values in
\* insertion order (a stable sort)
RECURSIVE most_common(_)
most_common(items) ==
    IF items = <<>> THEN <<>>
    ELSE LET i == FirstMax(items)
         IN  <<items[i]>>
                 \o most_common(SubSeq(items, 1, i - 1) \o SubSeq(items, i + 1, Len(items)))

\* scores.most_common(1)[0][0] if scores else "No winner"
top_score(scores) == IF scores # <<>> THEN scores[FirstMax(scores)][1] ELSE NoWinner

\* ---------------------------------------------------------- condorcet_winner
\* for i, winner in enumerate(ranking): for loser in ranking[i + 1:]:
\*     pairwise[winner][loser] += count
PairwiseBallot(pairwise, count, ranking) ==
    [p \in DOMAIN pairwise |->
        Sum(pairwise[p],
            Times(count, Cardinality({ij \in (1..Len(ranking)) \X (1..Len(ranking)) :
                                 ij[1] < ij[2] /\ ranking[ij[1]] = p[1] /\ ranking[ij[2]] = p[2]})))]

RECURSIVE PairwiseBallots(_, _)
PairwiseBallots(pairwise, blts) ==
    IF blts = <<>> THEN pairwise
    ELSE PairwiseBallots(PairwiseBallot(pairwise, Head(blts)[1], Head(blts)[2]), Tail(blts))

\* as Beats, with >=: a head-to-head tie counts for both sides
Beats_OrTies(pairwise, a, b) == LessEq(pairwise[<<b, a>>], pairwise[<<a, b>>])

\* pairwise[a][b] > pairwise[b][a]
Beats(pairwise, a, b) == Less(pairwise[<<b, a>>], pairwise[<<a, b>>])

\* the double loop over candidates: victories[a] += 1 for every b it beats
RECURSIVE CountVictories(_, _, _, _)
CountVictories(victories, pairwise, cands, k) ==
    IF k > Len(cands) * Len(cands) THEN victories
    ELSE LET a == cands[((k - 1) \div Len(cands)) + 1]
             b == cands[((k - 1) % Len(cands)) + 1]
         IN  CountVictories(
                 IF a # b /\ Beats(pairwise, a, b) THEN Add(victories, a, One) ELSE victories,
                 pairwise, cands, k + 1)

\* for candidate in candidates: if victories[candidate] == len(candidates) - 1: ... break
RECURSIVE FirstUnbeaten(_, _, _)
FirstUnbeaten(victories, cands, n) ==
    IF cands = <<>> THEN None
    ELSE IF Get(victories, Head(cands), Zero) = Limbs(n - 1) THEN Head(cands)
    ELSE FirstUnbeaten(victories, Tail(cands), n)

condorcet_winner(cands, blts) ==
    LET pairwise == PairwiseBallots([p \in ToSet(cands) \X ToSet(cands) |-> Zero], blts)
        victories == CountVictories(<<>>, pairwise, cands, 1)
    IN  [winner |-> FirstUnbeaten(victories, cands, Len(cands)),
         pairwise |-> pairwise,
         victories |-> victories]

\* ---------------------------------------------------------------- the form
\* create_widgets: what the two input widgets hold when the window opens
\* "Alice, Bob, Chen, Diego"
DefaultCandidates ==
    <<65, 108, 105, 99, 101, 44, 32, 66, 111, 98, 44, 32, 67, 104, 101, 110, 44, 32,
      68, 105, 101, 103, 111>>

\* "10: Alice > Bob > Chen > Diego", "8: Bob > Diego > Chen > Alice",
\* "6: Chen > Alice > Bob > Diego", "4: Diego > Chen > Alice > Bob", a line
\* feed between them
DefaultBallots ==
    <<49, 48, 58, 32, 65, 108, 105, 99, 101, 32, 62, 32, 66, 111, 98, 32, 62, 32,
      67, 104, 101, 110, 32, 62, 32, 68, 105, 101, 103, 111, 10>>
    \o <<56, 58, 32, 66, 111, 98, 32, 62, 32, 68, 105, 101, 103, 111, 32, 62, 32,
         67, 104, 101, 110, 32, 62, 32, 65, 108, 105, 99, 101, 10>>
    \o <<54, 58, 32, 67, 104, 101, 110, 32, 62, 32, 65, 108, 105, 99, 101, 32, 62,
         32, 66, 111, 98, 32, 62, 32, 68, 105, 101, 103, 111, 10>>
    \o <<52, 58, 32, 68, 105, 101, 103, 111, 32, 62, 32, 67, 104, 101, 110, 32, 62,
         32, 65, 108, 105, 99, 101, 32, 62, 32, 66, 111, 98>>

\* ------------------------------------------------------------------- inputs
\* What the user types into the form. Generated elections over the names
\* A, B, C, and hand-typed texts: stray blanks and separators, the other
\* blank and line-break characters, malformed lines.
Names == <<65, 66, 67>>

\* the counts written on the lines of a generated election
Counts == {1, 2}

RECURSIVE Join(_, _)
Join(texts, sep) ==
    IF texts = <<>> THEN <<>>
    ELSE IF Len(texts) = 1 THEN texts[1]
    ELSE texts[1] \o <<sep>> \o Join(Tail(texts), sep)

\* k candidates: "A", "A,B", "A,B,C"
ElectionCandidateText(k) == Join([i \in 1..k |-> <<Names[i]>>], Comma)

\* what a voter writes in an election of the first k names: nothing, one
\* name, or a complete ranking of the k names
Rankings(k) ==
    UNION {{r \in [1..n -> {Names[i] : i \in 1..k}] : \A i, j \in 1..n : i # j => r[i] # r[j]}
           : n \in {0, 1, k}}

RECURSIVE SetToSeq(_)
SetToSeq(S) ==
    IF S = {} THEN <<>>
    ELSE LET x == CHOOSE x \in S : TRUE IN <<x>> \o SetToSeq(S \ {x})

\* the line "count:a>b>c"
BallotLine(count, ranking) ==
    <<48 + count, Colon>> \o Join([i \in 1..Len(ranking) |-> <<ranking[i]>>], Greater)

\* the ballot texts of n lines whose rankings are list[lo], ... in increasing
\* position: each ranking on at most one line, with its count
RECURSIVE LineChoices(_, _, _)
LineChoices(list, n, lo) ==
    IF n = 0 THEN {<<>>}
    ELSE UNION {{<<BallotLine(ic[2], list[ic[1]])>> \o rest
                    : rest \in LineChoices(list, n - 1, ic[1] + 1)}
                : ic \in (lo..Len(list)) \X Counts}

ElectionBallotTexts(k) ==
    {Join(lines, LineFeed)
        : lines \in UNION {LineChoices(SetToSeq(Rankings(k)), n, 1) : n \in 0..MaxLines}}

\* "", " , ", "A,B", " A , B ", "A,,B,", "B, A,B", "A,A\r"
TypedCandidateTexts ==
    { <<>>,
      <<32, 44, 32>>,
      <<65, 44, 66>>,
      <<32, 65, 32, 44, 32, 66, 32>>,
      <<65, 44, 44, 66, 44>>,
      <<66, 44, 32, 65, 44, 66>>,
      <<65, 44, 65, 13>> }

\* " ", "A>B", "x:A", ":A", "0:A", "-1:A", "1:A>A", "1:A,B", " 2 : B > A ",
\*    "1:", "1:>, ", "1:C", "1:A:B", "1_0:A\r", "\u0662:B\xa0", "1:A\x0b1:B",
\* counts past the 53 bits of a float: "9007199254740993:A" and
\*    "9007199254740993:B" (2**53 + 1 each), "9007199254740996:A" and
\*    "9007199254740994:B" (2**53 + 4 against 2**53 + 2),
\* and a count past the largest float: "1", 309 zeros, ":A"
TypedLines ==
    { <<32>>,
      <<65, 62, 66>>,
      <<120, 58, 65>>,
      <<58, 65>>,
      <<48, 58, 65>>,
      <<45, 49, 58, 65>>,
      <<49, 58, 65, 62, 65>>,
      <<49, 58, 65, 44, 66>>,
      <<32, 50, 32, 58, 32, 66, 32, 62, 32, 65, 32>>,
      <<49, 58>>,
      <<49, 58, 62, 44, 32>>,
      <<49, 58, 67>>,
      <<49, 58, 65, 58, 66>>,
      <<49, 95, 48, 58, 65, 13>>,
      <<1634, 58, 66, 160>>,
      <<49, 58, 65, 11, 49, 58, 66>>,
      <<57, 48, 48, 55, 49, 57, 57, 50, 53, 52, 55, 52, 48, 57, 57, 51, 58, 65>>,
      <<57, 48, 48, 55, 49, 57, 57, 50, 53, 52, 55, 52, 48, 57, 57, 51, 58, 66>>,
      <<57, 48, 48, 55, 49, 57, 57, 50, 53, 52, 55, 52, 48, 57, 57, 54, 58, 65>>,
      <<57, 48, 48, 55, 49, 57, 57, 50, 53, 52, 55, 52, 48, 57, 57, 52, 58, 66>>,
      <<49>> \o [i \in 1..309 |-> 48] \o <<58, 65>> }

TypedBallotTexts ==
    {<<>>} \cup TypedLines \cup {Join(<<l1, l2>>, LineFeed) : l1 \in TypedLines, l2 \in TypedLines}

\* what the user retypes the candidates Entry to while the window is open
\* "A,B", "A,A\r", ""
RetypedCandidateTexts ==
    { <<65, 44, 66>>,
      <<65, 44, 65, 13>>,
      <<>> }

\* what the user retypes the ballots Text to while the window is open
\* "1:A\r\n1:B", "1:", "x:A"
RetypedBallotTexts ==
    { <<49, 58, 65, 13, 10, 49, 58, 66>>,
      <<49, 58>>,
      <<120, 58, 65>> }

\* -------------------------------------------------------------------- state
VARIABLES
    candidates_entry,   \* text of the candidates Entry
    ballots_text,       \* text of the ballots Text widget
    irv_var,            \* the three check boxes
    borda_var,
    condorcet_var,
    output,             \* what the output Text widget shows
    dialog,             \* the message box of the latest request
    traceback,          \* the exception the latest request died of, "" when none
    pc,                 \* where run_simulation stands: idle, irv, borda, condorcet, show
    candidates,         \* locals of run_simulation / irv_winner, while it runs
    ballots,
    remaining,
    rounds,
    winner,             \* what irv_winner returned, None before it returns
    scores,
    condorcet,          \* what condorcet_winner returned
    report_lines

vars ==
    <<candidates_entry, ballots_text, irv_var, borda_var, condorcet_var, output, dialog,
      traceback, pc, candidates, ballots, remaining, rounds, winner, scores, condorcet, report_lines>>

inputs == <<candidates_entry, ballots_text, irv_var, borda_var, condorcet_var>>

locals == <<candidates, ballots, remaining, rounds, winner, scores, condorcet, report_lines>>

\* Text.get("1.0", tk.END): the content and the widget's final line break
TextGet(content) == content \o <<LineFeed>>

NoReport == [total_votes |-> Zero, irv |-> <<>>, borda |-> <<>>, condorcet |-> <<>>]

NoCondorcet == [winner |-> None, pairwise |-> <<>>, victories |-> <<>>]

NoDialog == [box |-> "none", title |-> "", error |-> Return(<<>>).error]

Placeholder == [text |-> "Simulation results will appear here.\n", report |-> NoReport]

Cleared == [text |-> "", report |-> NoReport]

\* no call of run_simulation is in progress: none of its locals exists
NoLocals ==
    /\ candidates = <<>>
    /\ ballots = <<>>
    /\ remaining = <<>>
    /\ rounds = <<>>
    /\ winner = None
    /\ scores = <<>>
    /\ condorcet = NoCondorcet
    /\ report_lines = NoReport

\* the window as VotingApp.__init__ leaves it
Init ==
    /\ candidates_entry = DefaultCandidates
    /\ ballots_text = DefaultBallots
    /\ irv_var = TRUE /\ borda_var = TRUE /\ condorcet_var = TRUE
    /\ output = Placeholder
    /\ dialog = NoDialog
    /\ traceback = ""
    /\ pc = "idle"
    /\ NoLocals

\* the window after the user has filled in the form, before the first
\* request: a generated election (of one or two candidates under every
\* combination of the three boxes, of three with every box ticked), or
\* hand-typed texts with every box ticked
FilledInit ==
    /\ \/ /\ irv_var \in BOOLEAN /\ borda_var \in BOOLEAN /\ condorcet_var \in BOOLEAN
          /\ \E k \in 1..Len(Names) :
                 /\ k = Len(Names) => (irv_var /\ borda_var /\ condorcet_var)
                 /\ candidates_entry = ElectionCandidateText(k)
                 /\ ballots_text \in ElectionBallotTexts(k)
       \/ /\ candidates_entry \in TypedCandidateTexts
          /\ ballots_text \in TypedBallotTexts
          /\ irv_var = TRUE /\ borda_var = TRUE /\ condorcet_var = TRUE
    /\ output = Placeholder
    /\ dialog = NoDialog
    /\ traceback = ""
    /\ pc = "idle"
    /\ NoLocals

\* ------------------------------------------------------------ run_simulation
\* sum(count for count, _ in ballots)
RECURSIVE total_votes(_)
total_votes(blts) ==
    IF blts = <<>> THEN Zero ELSE Sum(Head(blts)[1], total_votes(Tail(blts)))

\* candidates, then ballots, parsed inside the one try block: the first error
\* is the one shown
ParseRequest(craw, braw) ==
    LET c == parse_candidates(craw)
    IN  IF ~c.ok THEN [ok |-> FALSE, candidates |-> <<>>, ballots |-> <<>>, error |-> c.error]
        ELSE LET b == parse_ballots(braw, c.value)
             IN  [ok |-> b.ok, candidates |-> c.value, ballots |-> b.value, error |-> b.error]

\* as NoSystemSelected, the check left out
NoSystemSelected_Skipped(irv, borda, cond) == FALSE

\* not (irv or borda or condorcet)
NoSystemSelected(irv, borda, cond) == ~(irv \/ borda \/ cond)

\* the engine that runs after `stage`, or "show" when the report is complete
StageAfter(stage) ==
    IF stage = "start" /\ irv_var THEN "irv"
    ELSE IF stage \in {"start", "irv"} /\ borda_var THEN "borda"
    ELSE IF stage \in {"start", "irv", "borda"} /\ condorcet_var THEN "condorcet"
    ELSE "show"

\* run_simulation returns, or an exception leaves it: its locals are gone
Leave ==
    /\ pc' = "idle"
    /\ candidates' = <<>> /\ ballots' = <<>> /\ report_lines' = NoReport
    /\ remaining' = <<>> /\ rounds' = <<>> /\ winner' = None
    /\ scores' = <<>> /\ condorcet' = NoCondorcet

\* an exception nothing catches ends the request: Tk prints the traceback,
\* no message box is shown and the output widget keeps its content
Raise(exception) ==
    /\ traceback' = exception
    /\ Leave

\* run_simulation from the end of its try block on, req being what the two
\* parsers made of the form: the error box, the no-system box, or the start
\* of the report and the first selected engine; a ballot total too long to
\* print raises ValueError in the f-string of the report's first line
Respond(req) ==
    IF ~req.ok
    THEN /\ dialog' = [box |-> "showerror", title |-> "Input Error", error |-> req.error]
         /\ traceback' = ""
         /\ Leave
    ELSE IF NoSystemSelected(irv_var, borda_var, condorcet_var)
    THEN /\ dialog' = [box |-> "showwarning", title |-> "No Systems Selected",
                       error |-> Return(<<>>).error]
         /\ traceback' = ""
         /\ Leave
    ELSE IF ~Printable(total_votes(req.ballots))
    THEN /\ dialog' = NoDialog
         /\ Raise("ValueError")
    ELSE /\ dialog' = NoDialog
         /\ traceback' = ""
         /\ pc' = StageAfter("start")
         /\ candidates' = req.candidates
         /\ ballots' = req.ballots
         /\ report_lines' = [NoReport EXCEPT !.total_votes = total_votes(req.ballots)]
         /\ remaining' = IF pc' = "irv" THEN candidates' ELSE <<>>
         /\ rounds' = <<>>
         /\ winner' = None
         /\ scores' = <<>>
         /\ condorcet' = NoCondorcet

\* the "Run Simulation" button
RunSimulation ==
    /\ pc = "idle"
    /\ Respond(ParseRequest(candidates_entry, TextGet(ballots_text)))
    /\ UNCHANGED <<inputs, output>>

\* irv_winner returns w with the trail rs: the IRV section of the report
IrvReturns(w, rs) ==
    /\ winner' = w
    /\ report_lines' = [report_lines EXCEPT !.irv = <<[winner |-> w, rounds |-> rs]>>]
    /\ pc' = StageAfter("irv")

\* the tally and the total of the round that starts in this state
RoundTally == TallyRound(<<>>, ballots, remaining)

RoundTotal == SumValues(RoundTally)

\* one pass of the while loop of irv_winner; with votes in the round, the
\* first total / 2 of the majority loop may raise OverflowError
IrvRound ==
    /\ pc = "irv"
    /\ Len(remaining) > 1
    /\ IF RoundTotal # Zero /\ HalfOverflows(RoundTotal)
       THEN /\ Raise("OverflowError")
            /\ UNCHANGED <<inputs, output, dialog>>
       ELSE /\ rounds' = AppendRound(rounds, RoundTally, RoundTotal, remaining)
            /\ IF RoundTotal = Zero
               THEN /\ remaining' = remaining
                    /\ IrvReturns(LastStanding(remaining), rounds')
               ELSE IF Majority(RoundTally, RoundTotal) # None
               THEN /\ remaining' = remaining
                    /\ IrvReturns(Majority(RoundTally, RoundTotal), rounds')
               ELSE /\ remaining' = Without(remaining, ToSet(eliminated(RoundTally, remaining)))
                    /\ UNCHANGED <<winner, report_lines, pc>>
            /\ UNCHANGED <<inputs, output, dialog, traceback, candidates, ballots, scores,
                           condorcet>>

\* the while condition fails: the return after the loop
IrvExit ==
    /\ pc = "irv"
    /\ Len(remaining) <= 1
    /\ IrvReturns(LastStanding(remaining), rounds)
    /\ UNCHANGED <<inputs, output, dialog, traceback, candidates, ballots, remaining, rounds,
                   scores, condorcet>>

\* the Borda section of the report; a score too long to print raises
\* ValueError in its f-string
Borda ==
    /\ pc = "borda"
    /\ IF \E score \in ToSet(borda_winner(candidates, ballots)) : ~Printable(score[2])
       THEN /\ Raise("ValueError")
            /\ UNCHANGED <<inputs, output, dialog>>
       ELSE /\ scores' = borda_winner(candidates, ballots)
            /\ report_lines' =
                   [report_lines EXCEPT
                       !.borda = <<[ranked |-> most_common(scores'),
                                    winner |-> top_score(scores')]>>]
            /\ pc' = StageAfter("borda")
            /\ UNCHANGED <<inputs, output, dialog, traceback, candidates, ballots,
                           remaining, rounds, winner, condorcet>>

Condorcet ==
    /\ pc = "condorcet"
    /\ condorcet' = condorcet_winner(candidates, ballots)
    /\ report_lines' =
           [report_lines EXCEPT
               !.condorcet =
                   <<[wins |-> [i \in 1..Len(candidates) |->
                                   <<candidates[i], Get(condorcet'.victories, candidates[i], Zero)>>],
                      winner |-> condorcet'.winner]>>]
    /\ pc' = StageAfter("condorcet")
    /\ UNCHANGED <<inputs, output, dialog, traceback, candidates, ballots, remaining, rounds,
                   winner, scores>>

\* the report replaces the content of the output widget and run_simulation
\* returns
ShowReport ==
    /\ pc = "show"
    /\ output' = [text |-> "report", report |-> report_lines]
    /\ Leave
    /\ UNCHANGED <<inputs, dialog, traceback>>

\* the "Clear Output" button
ClearOutput ==
    /\ pc = "idle"
    /\ output' = Cleared
    /\ UNCHANGED <<inputs, dialog, traceback, pc, locals>>

\* ------------------------------------------------------------- the widgets
\* the user replaces the text of the candidates Entry
EditCandidates ==
    /\ pc = "idle"
    /\ candidates_entry' \in {DefaultCandidates} \cup RetypedCandidateTexts
    /\ candidates_entry' # candidates_entry
    /\ UNCHANGED <<ballots_text, irv_var, borda_var, condorcet_var, output, dialog,
                   traceback, pc, locals>>

\* the user replaces the text of the ballots Text
EditBallots ==
    /\ pc = "idle"
    /\ ballots_text' \in {DefaultBallots} \cup RetypedBallotTexts
    /\ ballots_text' # ballots_text
    /\ UNCHANGED <<candidates_entry, irv_var, borda_var, condorcet_var, output, dialog,
                   traceback, pc, locals>>

\* a click on one of the three Checkbuttons
ToggleIrv ==
    /\ pc = "idle"
    /\ irv_var' = ~irv_var
    /\ UNCHANGED <<candidates_entry, ballots_text, borda_var, condorcet_var, output, dialog,
                   traceback, pc, locals>>

ToggleBorda ==
    /\ pc = "idle"
    /\ borda_var' = ~borda_var
    /\ UNCHANGED <<candidates_entry, ballots_text, irv_var, condorcet_var, output, dialog,
                   traceback, pc, locals>>

ToggleCondorcet ==
    /\ pc = "idle"
    /\ condorcet_var' = ~condorcet_var
    /\ UNCHANGED <<candidates_entry, ballots_text, irv_var, borda_var, output, dialog,
                   traceback, pc, locals>>

\* the event loop of the window: the two buttons, the steps of a running
\* request, and the user's changes of the form
Next ==
    \/ RunSimulation
    \/ IrvRound
    \/ IrvExit
    \/ Borda
    \/ Condorcet
    \/ ShowReport
    \/ ClearOutput
    \/ EditCandidates
    \/ EditBallots
    \/ ToggleIrv
    \/ ToggleBorda
    \/ ToggleCondorcet

Spec == Init /\ [][Next]_vars

\* the two buttons on a filled-in form
FilledNext ==
    \/ RunSimulation
    \/ IrvRound
    \/ IrvExit
    \/ Borda
    \/ Condorcet
    \/ ShowReport
    \/ ClearOutput

FilledSpec == FilledInit /\ [][FilledNext]_vars

\* ------------------------------------------------------------- vocabulary
\* the recorded round i of the trail
Tally(i) == rounds[i][1]
Total(i) == rounds[i][2]
Snapshot(i) == rounds[i][3]

\* the remaining list as round i left it
After(i) == IF i < Len(rounds) THEN Snapshot(i + 1) ELSE remaining

\* irv_winner has returned
IrvReturned == winner # None

IsPrefix(s, t) == Len(s) <= Len(t) /\ SubSeq(t, 1, Len(s)) = s

\* the sum of f[x] over x in S
RECURSIVE SumOver(_, _)
SumOver(S, f) ==
    IF S = {} THEN Zero
    ELSE LET x == CHOOSE x \in S : TRUE IN Sum(f[x], SumOver(S \ {x}, f))

\* position of candidate c in a ranking, 0 when it is not ranked
Position(ranking, c) ==
    IF c \in ToSet(ranking) THEN CHOOSE p \in 1..Len(ranking) : ranking[p] = c ELSE 0

\* total weight of the ballots (by index) that satisfy P
WeightWhere(P(_)) ==
    SumOver({b \in 1..Len(ballots) : P(ballots[b][2])},
            [b \in 1..Len(ballots) |-> ballots[b][1]])

\* more than half of the total, in exact arithmetic: 2 * votes > total
StrictMajority(votes, total) == Less(total, Sum(votes, votes))

\* the ballot's earliest choice among the candidates in `live` is c
CountsFor(ranking, c, live) ==
    /\ Position(ranking, c) > 0
    /\ c \in live
    /\ \A q \in 1..(Position(ranking, c) - 1) : ranking[q] \notin live

\* the ballot ranks none of the candidates in `live`
Exhausted(ranking, live) == ToSet(ranking) \cap live = {}

\* ------------------------------------------------------------------- claims
\* C1: when an IRV round has total 0, irv_winner stops at that round and
\* returns the "No winner" sentinel (never a candidate name), the zero-total
\* round being the last entry of the trail.
C1_ZeroTotalNoWinner ==
    (IrvReturned /\ \E i \in 1..Len(rounds) : Total(i) = Zero)
        => (winner = NoWinner /\ Total(Len(rounds)) = Zero)

\* C2: IRV majority rule. In a round with total > 0 a candidate whose tally
\* strictly exceeds total/2 is returned and that round ends the trail; when
\* irv_winner returns from inside a round with total > 0 the winner holds a
\* strict majority of it (exactly half is not enough); a round with votes
\* and no strict majority is followed by an elimination.
C2_MajorityRule ==
    /\ \A i \in 1..Len(rounds) : \A k \in 1..Len(Tally(i)) :
           (Total(i) # Zero /\ StrictMajority(Tally(i)[k][2], Total(i)))
               => (i = Len(rounds) /\ winner = Tally(i)[k][1])
    /\ (IrvReturned /\ Len(remaining) > 1 /\ Total(Len(rounds)) # Zero)
           => StrictMajority(Get(Tally(Len(rounds)), winner, Zero), Total(Len(rounds)))
    /\ \A i \in 1..Len(rounds) :
           (Total(i) # Zero
                /\ \A k \in 1..Len(Tally(i)) : ~StrictMajority(Tally(i)[k][2], Total(i)))
               => (After(i) # Snapshot(i) /\ (i = Len(rounds) => pc = "irv" \/ Len(remaining) <= 1))

\* the pass of the while loop that starts in this state returns or removes
\* at least one candidate
PassMakesProgress ==
    \/ RoundTotal = Zero
    \/ Majority(RoundTally, RoundTotal) # None
    \/ eliminated(RoundTally, remaining) # <<>>

\* C3: irv_winner terminates: its trail never has more than
\* candidateCount - 1 rounds, every pass of the loop returns or removes at
\* least one candidate, and every round that does not stop the loop leaves
\* fewer candidates remaining, so the loop runs at most candidateCount - 1
\* times. A single candidate is returned with an empty trail.
C3_TerminatesWithinBound ==
    /\ [](Len(rounds) <= IF candidates = <<>> THEN 0 ELSE Len(candidates) - 1)
    /\ []((pc = "irv" /\ Len(remaining) > 1) => (~IrvReturned /\ PassMakesProgress))
    /\ [](pc \in {"borda", "condorcet", "show"} /\ irv_var => IrvReturned)
    /\ []((IrvReturned /\ Len(candidates) = 1) => (rounds = <<>> /\ winner = candidates[1]))
    /\ [][(pc = "irv" /\ pc' = "irv")
             => (Len(remaining') < Len(remaining) /\ Len(rounds') = Len(rounds) + 1)]_vars
    /\ [][pc = "irv" => (pc' = "irv" \/ IrvReturned')]_vars

\* C4: no ballot with an empty ranking is ever in the list parse_ballots
\* returns: every ballot has weight > 0 and a non-empty, duplicate-free
\* ranking of known candidates.
C4_NoEmptyRanking ==
    \A b \in 1..Len(ballots) :
        /\ ballots[b][1] # Zero
        /\ ballots[b][2] # <<>>
        /\ Cardinality(ToSet(ballots[b][2])) = Len(ballots[b][2])
        /\ ToSet(ballots[b][2]) \subseteq ToSet(candidates)

\* the request in the widgets fails validation or selects no voting system
Malformed ==
    \/ ~ParseRequest(candidates_entry, TextGet(ballots_text)).ok
    \/ ~(irv_var \/ borda_var \/ condorcet_var)

\* the message box run_simulation answers the malformed request in the
\* widgets with
Refusal ==
    IF ~ParseRequest(candidates_entry, TextGet(ballots_text)).ok
    THEN [box |-> "showerror", title |-> "Input Error",
          error |-> ParseRequest(candidates_entry, TextGet(ballots_text)).error]
    ELSE [box |-> "showwarning", title |-> "No Systems Selected", error |-> Return(<<>>).error]

\* C5: a malformed request (validation error, or no method selected) is
\* aborted before any engine is called and before the output is changed: the
\* handler shows its message box and returns at once, leaving the output (an
\* earlier report included) and the form as they were; while a request is
\* past validation the form is well-formed, and a message box is only ever
\* raised by refusing a request.
C5_MalformedAborts ==
    /\ [](Malformed => (pc = "idle" /\ NoLocals))
    /\ [][(Malformed /\ RunSimulation)
             => (/\ output' = output
                 /\ pc' = "idle"
                 /\ NoLocals'
                 /\ dialog' = Refusal
                 /\ UNCHANGED inputs)]_vars
    /\ [][(dialog' # dialog /\ dialog'.box # "none") => (Malformed /\ dialog' = Refusal)]_vars

C5_Witness ==
    /\ Malformed
    /\ dialog = Refusal
    /\ dialog.box = "showerror"
    /\ output.text = "report"
    /\ output.report.irv # <<>>

\* pairwise[x][y]: total weight of the ballots that rank x strictly before y
Prefer(x, y) ==
    WeightWhere(LAMBDA r : Position(r, x) > 0 /\ Position(r, y) > 0
                               /\ Position(r, x) < Position(r, y))

BeatsAll(w) == \A b \in ToSet(candidates) \ {w} : Less(Prefer(b, w), Prefer(w, b))

\* C6: condorcet_winner returns W exactly when W beats every other candidate
\* head to head (a tie is a victory for neither); at most one candidate does;
\* when none does the result is None.
C6_CondorcetWinner ==
    condorcet # NoCondorcet =>
        /\ \A x, y \in ToSet(candidates) :
               condorcet.pairwise[<<x, y>>] = IF x = y THEN Zero ELSE Prefer(x, y)
        /\ \A c \in ToSet(candidates) :
               Get(condorcet.victories, c, Zero)
                   = Limbs(Cardinality({b \in ToSet(candidates) \ {c} :
                                         Less(Prefer(b, c), Prefer(c, b))}))
        /\ \A w \in ToSet(candidates) : (condorcet.winner = w) <=> BeatsAll(w)
        /\ Cardinality({w \in ToSet(candidates) : BeatsAll(w)}) <= 1
        /\ (condorcet.winner = None) <=> ~\E w \in ToSet(candidates) : BeatsAll(w)

C6_Witness ==
    /\ condorcet.winner # None
    /\ Len(candidates) = 3
    /\ \E x, y \in ToSet(candidates) : x # y /\ Prefer(x, y) = Prefer(y, x) /\ Prefer(x, y) # Zero
    /\ \E b \in ToSet(candidates) : Prefer(b, condorcet.winner) # Zero

\* Borda score of candidate c: weight * (candidateCount - 1 - i) summed over
\* the ballots that rank c at 0-based position i
BordaScore(c) ==
    SumOver({b \in 1..Len(ballots) : Position(ballots[b][2], c) > 0},
            [b \in 1..Len(ballots) |->
                Times(ballots[b][1],
                      Len(candidates) - 1 - (Position(ballots[b][2], c) - 1))])

\* C7: every candidate is in the Borda score map (0 when unranked) with the
\* positional score, and the reported winner has the highest score, the
\* earliest candidate in input order winning a tie for the maximum.
C7_BordaScores ==
    scores # <<>> =>
        /\ [i \in 1..Len(scores) |-> scores[i][1]] = candidates
        /\ \A i \in 1..Len(candidates) : scores[i][2] = BordaScore(candidates[i])
        /\ LET top == report_lines.borda[1].winner
               best == CHOOSE i \in 1..Len(candidates) :
                           /\ \A j \in 1..Len(candidates) :
                                  LessEq(BordaScore(candidates[j]), BordaScore(candidates[i]))
                           /\ \A j \in 1..(i - 1) :
                                  Less(BordaScore(candidates[j]), BordaScore(candidates[i]))
           IN  top = candidates[best]

C7_Witness ==
    /\ scores # <<>>
    /\ Len(candidates) = 3
    /\ scores[2][2] = scores[3][2]
    /\ Less(scores[1][2], scores[2][2])
    /\ scores[1][2] # Zero
    /\ report_lines.borda[1].winner = candidates[2]

\* tally of a remaining candidate, 0 when it has no recorded votes
VotesOf(i, c) == Get(Tally(i), c, Zero)

\* C8: in a round that ends with an elimination, the candidates removed are
\* exactly the remaining candidates whose tally (0 when none is recorded) is
\* the minimum over all remaining candidates.
C8_EliminatesMinimum ==
    \A i \in 1..Len(rounds) :
        After(i) # Snapshot(i) =>
            ToSet(Snapshot(i)) \ ToSet(After(i))
                = {c \in ToSet(Snapshot(i)) :
                       \A d \in ToSet(Snapshot(i)) : LessEq(VotesOf(i, c), VotesOf(i, d))}

\* C9: in every recorded round each ballot counts for its earliest remaining
\* choice or, exhausted, for nobody; the total is the sum of the tally and the
\* weight of the non-exhausted ballots; the round-1 total is at most the sum of
\* all weights and equals it when every ranking is non-empty.
C9_RoundCounting ==
    \A i \in 1..Len(rounds) :
        LET live == ToSet(Snapshot(i))
        IN  /\ Keys(Tally(i)) \subseteq live
            /\ Cardinality(Keys(Tally(i))) = Len(Tally(i))
            /\ \A c \in live :
                   VotesOf(i, c) = WeightWhere(LAMBDA r : CountsFor(r, c, live))
            /\ Total(i) = SumValues(Tally(i))
            /\ Total(i) = WeightWhere(LAMBDA r : ~Exhausted(r, live))
            /\ (i = 1 => LessEq(Total(i), total_votes(ballots)))
            /\ (i = 1 /\ \A b \in 1..Len(ballots) : ballots[b][2] # <<>>)
                   => Total(i) = total_votes(ballots)

C9_Witness ==
    /\ Len(rounds) = 2
    /\ Total(2) # Zero
    /\ Less(Total(2), Total(1))
    /\ Total(1) = total_votes(ballots)

\* every tally names only candidates of its round's snapshot and every
\* snapshot is a strict subset of the one before
TrailShape ==
    \A i \in 1..Len(rounds) :
        /\ Keys(Tally(i)) \subseteq ToSet(Snapshot(i))
        /\ i > 1 => /\ ToSet(Snapshot(i)) \subseteq ToSet(Snapshot(i - 1))
                    /\ ToSet(Snapshot(i)) # ToSet(Snapshot(i - 1))

\* C10: the trail is append-only: while a request runs a recorded round is
\* never changed, every later trail has the earlier one as a prefix, and the
\* trail the report shows is the recorded one; tallies stay within their
\* snapshot and snapshots shrink strictly.
C10_AppendOnlyTrail ==
    /\ []TrailShape
    /\ [][(pc # "idle" /\ pc' # "idle") => IsPrefix(rounds, rounds')]_vars
    /\ [][(pc = "irv" /\ pc' = "irv") => Len(rounds') = Len(rounds) + 1]_vars
    /\ [][(pc = "show" /\ irv_var) => output'.report.irv[1].rounds = rounds]_vars

C10_Witness ==
    /\ pc = "show"
    /\ report_lines.irv # <<>>
    /\ Len(rounds) = 2
    /\ report_lines.irv[1].rounds = rounds
    /\ Snapshot(2) # Snapshot(1)

====
